---- MODULE Spec2Model ----
(***************************************************************************)
(* lkml/interface.py: DictParser (mapping -> syntax tree) and DictVisitor  *)
(* (syntax tree -> mapping).                                               *)
(*                                                                         *)
(* Python values are tagged records [kind, val]:                           *)
(*   str   val is a string          int   val is an integer                *)
(*   list  val is a sequence of values                                     *)
(*   dict  val is a sequence of entries [k, v] (dicts keep insertion order)*)
(*   None  the value None                                                  *)
(* Dictionary keys are strings.  Optional[str] fields hold the string None *)
(* when they are None.                                                     *)
(***************************************************************************)
EXTENDS Integers, Sequences, FiniteSets, TLC

VARIABLES
    obj,          \* the mapping object handed to parse (parse mutates it in place)
    obj0,         \* history: the mapping as it was when it was built
    parent_key,   \* DictParser.parent_key
    level,        \* DictParser.level
    latest_node,  \* DictParser.latest_node
    fresh,        \* history: the last parse call started on a newly constructed parser
    calls,        \* history: number of parse calls made on obj
    tree,         \* the tree returned by the last parse call, or the tree handed to visit
    prev_tree,    \* history: the tree returned by the parse call before the last one
    in_obj,       \* history: obj as it was when the last parse call started
    perr,         \* outcome of the last parse call
    depth,        \* DictVisitor.depth
    result,       \* the mapping returned by the last visit call
    verr,         \* outcome of the last visit call
    warning,      \* the last visit call logged the top-level redeclaration warning
    depth_in,     \* history: depth when the last visit call started
    pc            \* what the caller did last

vars == <<obj, obj0, parent_key, level, latest_node, fresh, calls, tree, prev_tree,
          in_obj, perr, depth, result, verr, warning, depth_in, pc>>

None == "None"
PyNone == [kind |-> "None", val |-> 0]
PyStr(s) == [kind |-> "str", val |-> s]
PyInt(n) == [kind |-> "int", val |-> n]
PyList(s) == [kind |-> "list", val |-> s]
PyDict(s) == [kind |-> "dict", val |-> s]
Entry(key, value) == [k |-> key, v |-> value]

\* Python truthiness of a value (the `if name` tests of parse_block).
Truthy(v) ==
    CASE v.kind = "None" -> FALSE
      [] v.kind = "str" -> v.val # ""
      [] v.kind = "int" -> v.val # 0
      [] OTHER -> v.val # <<>>

\* str(x) of a scalar.
str(v) == IF v.kind = "int" THEN ToString(v.val) ELSE v.val

\* dict helpers
Keys(items) == {items[i].k : i \in 1..Len(items)}
Get(items, key) == items[CHOOSE i \in 1..Len(items) : items[i].k = key].v
Without(items, key) == SelectSeq(items, LAMBDA e : e.k # key)

RECURSIVE Repeat(_, _)
Repeat(s, n) == IF n <= 0 THEN "" ELSE s \o Repeat(s, n - 1)

(***************************************************************************)
(* lkml.keys: the key classification tables, restricted to the keys the    *)
(* model draws its inputs from.                                            *)
(***************************************************************************)
PLURAL_KEYS == {"view", "dimension", "filter", "allowed_value", "access_grant", "param"}
KEYS_WITH_NAME_FIELDS == {"param"}
QUOTED_LITERAL_KEYS == {"label", "name"}
EXPR_BLOCK_KEYS == {"sql"}

pluralize(key) == key \o "s"

\* str.rstrip("s") on the keys of the model.
rstrip_s(key) ==
    CASE key = "views" -> "view"
      [] key = "dimensions" -> "dimension"
      [] key = "filters" -> "filter"
      [] key = "allowed_values" -> "allowed_value"
      [] key = "access_grants" -> "access_grant"
      [] key = "params" -> "param"
      [] key = "fields" -> "field"
      [] key = "sorts" -> "sort"
      [] key = "suggestions" -> "suggestion"
      [] OTHER -> key

singularize(key) == rstrip_s(key)

\* str.strip() on the string values of the model.
strip(s) ==
    CASE s = " y " -> "y"
      [] s = "y " -> "y"
      [] OTHER -> s

(***************************************************************************)
(* lkml.tree: tokens and nodes.                                            *)
(***************************************************************************)
Token(cls, value, prefix, suffix) ==
    [tok |-> cls, value |-> value, prefix |-> prefix, suffix |-> suffix]
SyntaxToken(value, prefix, suffix) == Token("SyntaxToken", value, prefix, suffix)
QuotedSyntaxToken(value, prefix, suffix) == Token("QuotedSyntaxToken", value, prefix, suffix)
ExpressionSyntaxToken(value, prefix, suffix) ==
    Token("ExpressionSyntaxToken", value, prefix, suffix)
LeftCurlyBrace(prefix) == Token("LeftCurlyBrace", PyStr("{"), prefix, "")
RightCurlyBrace(prefix) == Token("RightCurlyBrace", PyStr("}"), prefix, "")
LeftBracket == Token("LeftBracket", PyStr("["), "", "")
RightBracket(prefix) == Token("RightBracket", PyStr("]"), prefix, "")
NoToken == [tok |-> None]

PairNode(type, value) == [node |-> "PairNode", type |-> type, value |-> value]
ListNode(type, left_bracket, items, right_bracket, trailing_comma) ==
    [node |-> "ListNode", type |-> type, left_bracket |-> left_bracket, items |-> items,
     right_bracket |-> right_bracket, trailing_comma |-> trailing_comma]
BlockNode(type, left_brace, right_brace, name, container) ==
    [node |-> "BlockNode", type |-> type, left_brace |-> left_brace,
     right_brace |-> right_brace, name |-> name, container |-> container]
ContainerNode(items) == [node |-> "ContainerNode", items |-> items]
DocumentNode(container) == [node |-> "DocumentNode", container |-> container]
NoTree == [node |-> None]

(***************************************************************************)
(* flatten                                                                 *)
(***************************************************************************)
IsList(x) == "list" \in DOMAIN x
AsList(s) == [list |-> s]

RECURSIVE flatten(_)
flatten(sequence) ==
    IF sequence = <<>> THEN <<>>
    ELSE (IF IsList(Head(sequence)) THEN Head(sequence).list ELSE <<Head(sequence)>>)
         \o flatten(Tail(sequence))

(***************************************************************************)
(* DictParser.  The parser's fields travel as a record st; every method    *)
(* returns the value it returns in the code (ret), the fields afterwards   *)
(* (st), the argument object as the call left it (value) and the exception *)
(* it raised, if any (err).                                                *)
(***************************************************************************)
ParserState(pk, lv, ln) == [parent_key |-> pk, level |-> lv, latest_node |-> ln]
Ret(ret, st, value, err) == [ret |-> ret, st |-> st, value |-> value, err |-> err]
NoError == "none"

base_indent == "  "

DictParser_init == ParserState(None, 0, "DocumentNode")

increase_level(st) == [st EXCEPT !.latest_node = None, !.level = st.level + 1]

\* decrease_level leaving the level where it is.
decrease_level_stays(st) == st

decrease_level(st) == [st EXCEPT !.level = st.level - 1]

indent(st) == IF st.level > 0 THEN Repeat(base_indent, st.level) ELSE ""

newline_indent(st) == "\n" \o indent(st)

prefix(st) ==
    IF st.latest_node = "DocumentNode" THEN ""
    ELSE IF st.latest_node = None THEN newline_indent(st)
    ELSE IF st.latest_node = "BlockNode" THEN "\n" \o newline_indent(st)
    ELSE newline_indent(st)

\* is_plural_key raises AttributeError when it reaches parent_key.rstrip on None.
is_plural_key_raises(st, key) ==
    /\ singularize(key) \in PLURAL_KEYS
    /\ singularize(key) = "allowed_value"
    /\ st.parent_key = None

is_plural_key(st, key) ==
    LET singular_key == singularize(key)
    IN  /\ singular_key \in PLURAL_KEYS
        /\ ~(singular_key = "allowed_value" /\ rstrip_s(st.parent_key) = "access_grant")

TokenError == [tok |-> "AttributeError"]

parse_token(key, value, force_quote, pfx, sfx) ==
    IF force_quote \/ key \in QUOTED_LITERAL_KEYS
    THEN QuotedSyntaxToken(value, pfx, sfx)
    ELSE IF key \in EXPR_BLOCK_KEYS
    THEN (IF value.kind = "str"
          THEN ExpressionSyntaxToken(PyStr(strip(value.val) \o " "), pfx, sfx)
          ELSE TokenError)
    ELSE SyntaxToken(value, pfx, sfx)

parse_pair(st, key, value) ==
    LET force_quote == st.parent_key = "filters"
        value_syntax_token == parse_token(key, value, force_quote, None, None)
    IN  IF value_syntax_token = TokenError
        THEN Ret(NoTree, st, value, "AttributeError")
        ELSE Ret(PairNode(SyntaxToken(PyStr(key), prefix(st), ""), value_syntax_token),
                 [st EXCEPT !.latest_node = "PairNode"], value, NoError)

\* One element of the multiline branch: a PairNode in pair mode, else a token.
parse_list_item(st, key, value, pair_mode, force_quote) ==
    IF pair_mode
    THEN \* [(key, val)] = value.items()
         IF value.kind # "dict" THEN Ret(NoTree, st, value, "AttributeError")
         ELSE IF Len(value.val) # 1 THEN Ret(NoTree, st, value, "ValueError")
         ELSE parse_pair(st, value.val[1].k, value.val[1].v)
    ELSE LET t == parse_token(key, value, force_quote, newline_indent(st), None)
         IN  IF t = TokenError THEN Ret(NoTree, st, value, "AttributeError")
             ELSE Ret(t, st, value, NoError)

\* items.append(item), then the rest of the loop
Cons(one, rest) == Ret(<<one.ret>> \o rest.ret, rest.st, <<one.value>> \o rest.value, rest.err)
Raised(one, values) == Ret(<<>>, one.st, <<one.value>> \o Tail(values), one.err)

\* The loop of the multiline branch.
RECURSIVE parse_list_multiline(_, _, _, _, _), parse_list_multiline_rest(_, _, _, _, _)
parse_list_multiline(st, key, values, pair_mode, force_quote) ==
    IF values = <<>> THEN Ret(<<>>, st, <<>>, NoError)
    ELSE parse_list_multiline_rest(
             parse_list_item(st, key, Head(values), pair_mode, force_quote),
             key, values, pair_mode, force_quote)

parse_list_multiline_rest(item, key, values, pair_mode, force_quote) ==
    IF item.err # NoError THEN Raised(item, values)
    ELSE Cons(item, parse_list_multiline(item.st, key, Tail(values), pair_mode,
                                         force_quote))

\* Element i (from 0) of the inline branch: a token, prefixed by a space when i > 0.
parse_list_token(st, key, value, i, force_quote) ==
    LET token == IF i = 0 THEN parse_token(key, value, force_quote, None, None)
                 ELSE parse_token(key, value, force_quote, " ", None)
    IN  IF token = TokenError THEN Ret(NoTree, st, value, "AttributeError")
        ELSE Ret(token, st, value, NoError)

\* The loop of the inline branch.
RECURSIVE parse_list_inline(_, _, _, _, _), parse_list_inline_rest(_, _, _, _, _)
parse_list_inline(st, key, values, i, force_quote) ==
    IF values = <<>> THEN Ret(<<>>, st, <<>>, NoError)
    ELSE parse_list_inline_rest(parse_list_token(st, key, Head(values), i, force_quote),
                                key, values, i, force_quote)

parse_list_inline_rest(token, key, values, i, force_quote) ==
    IF token.err # NoError THEN Raised(token, values)
    ELSE Cons(token, parse_list_inline(token.st, key, Tail(values), i + 1, force_quote))

InlineLimit == 5

\* The multiline branch once its loop has run.
multiline_list_node(type_token, values, loop) ==
    IF loop.err # NoError THEN Ret(NoTree, loop.st, PyList(values), loop.err)
    ELSE LET st3 == decrease_level(loop.st)
         IN  Ret(ListNode(type_token, LeftBracket, loop.ret,
                          RightBracket(newline_indent(st3)), TRUE),
                 [st3 EXCEPT !.latest_node = "ListNode"], PyList(values), NoError)

\* The inline branch once its loop has run.
inline_list_node(type_token, values, loop) ==
    IF loop.err # NoError THEN Ret(NoTree, loop.st, PyList(values), loop.err)
    ELSE Ret(ListNode(type_token, LeftBracket, loop.ret, RightBracket(""), FALSE),
             [loop.st EXCEPT !.latest_node = "ListNode"], PyList(values), NoError)

\* parse_list going multiline only past the limit.
parse_list_past_limit(st, key, values) ==
    LET force_quote == key = "suggestions"
        st1 == [st EXCEPT !.parent_key = key]
        type_token == SyntaxToken(PyStr(key), prefix(st1), "")
        pair_mode == values # <<>> /\ Head(values).kind \notin {"str", "int"}
    IN  IF Len(values) > InlineLimit \/ pair_mode
        THEN multiline_list_node(type_token, values,
                 parse_list_multiline(increase_level(st1), key, values, pair_mode,
                                      force_quote))
        ELSE inline_list_node(type_token, values,
                 parse_list_inline(st1, key, values, 0, force_quote))

parse_list(st, key, values) ==
    LET force_quote == key = "suggestions"
        st1 == [st EXCEPT !.parent_key = key]
        type_token == SyntaxToken(PyStr(key), prefix(st1), "")
        pair_mode == values # <<>> /\ Head(values).kind \notin {"str", "int"}
    IN  IF Len(values) >= InlineLimit \/ pair_mode
        THEN multiline_list_node(type_token, values,
                 parse_list_multiline(increase_level(st1), key, values, pair_mode,
                                      force_quote))
        ELSE inline_list_node(type_token, values,
                 parse_list_inline(st1, key, values, 0, force_quote))

RECURSIVE parse_any(_, _, _), parse_block(_, _, _, _), expand_list(_, _, _),
          parse_items(_, _), parse_items_rest(_, _), parse_values(_, _, _),
          parse_values_rest(_, _, _)

\* [self.parse_any(key, value) for key, value in items.items()]: ret is the list of
\* results, value the entries as the calls left them.
ItemRet(key, one) == Ret(one.ret, one.st, Entry(key, one.value), one.err)

parse_items(st, items) ==
    IF items = <<>> THEN Ret(<<>>, st, <<>>, NoError)
    ELSE parse_items_rest(
             ItemRet(Head(items).k, parse_any(st, Head(items).k, Head(items).v)), items)

parse_items_rest(one, items) ==
    IF one.err # NoError THEN Raised(one, items)
    ELSE Cons(one, parse_items(one.st, Tail(items)))

\* [self.parse_any(singular_key, value) for value in values]
parse_values(st, singular_key, values) ==
    IF values = <<>> THEN Ret(<<>>, st, <<>>, NoError)
    ELSE parse_values_rest(parse_any(st, singular_key, Head(values)), singular_key, values)

parse_values_rest(one, singular_key, values) ==
    IF one.err # NoError THEN Raised(one, values)
    ELSE Cons(one, parse_values(one.st, singular_key, Tail(values)))

\* return flatten(nodes)
flattened(nodes) == Ret(AsList(flatten(nodes.ret)), nodes.st, PyList(nodes.value), nodes.err)

\* expand_list handing parse_any the key as it was given.
expand_list_keeps_key(st, key, values) == flattened(parse_values(st, key, values))

expand_list(st, key, values) == flattened(parse_values(st, singularize(key), values))

\* name = value.pop("name"), or None
block_name(key, value) ==
    IF key \in KEYS_WITH_NAME_FIELDS \/ "name" \notin Keys(value.val)
    THEN PyNone
    ELSE Get(value.val, "name")

\* value after the optional value.pop("name")
block_items(key, value) ==
    IF key \in KEYS_WITH_NAME_FIELDS \/ "name" \notin Keys(value.val)
    THEN value.val
    ELSE Without(value.val, "name")

\* parse_any taking whatever is left for the value of a pair.
parse_any_unchecked(st, key, value) ==
    IF value.kind = "list"
    THEN IF is_plural_key_raises(st, key) THEN Ret(NoTree, st, value, "AttributeError")
         ELSE IF is_plural_key(st, key) THEN expand_list(st, key, value.val)
         ELSE parse_list(st, key, value.val)
    ELSE IF value.kind = "dict"
    THEN parse_block(st, key, block_items(key, value), block_name(key, value))
    ELSE parse_pair(st, key, value)

parse_any(st, key, value) ==
    IF value.kind = "str" THEN parse_pair(st, key, value)
    ELSE IF value.kind = "list"
    THEN IF is_plural_key_raises(st, key) THEN Ret(NoTree, st, value, "AttributeError")
         ELSE IF is_plural_key(st, key) THEN expand_list(st, key, value.val)
         ELSE parse_list(st, key, value.val)
    ELSE IF value.kind = "dict"
    THEN parse_block(st, key, block_items(key, value), block_name(key, value))
    ELSE Ret(NoTree, st, value, "TypeError")

block_prefix(st) ==
    IF st.latest_node # None /\ st.latest_node # "DocumentNode"
    THEN "\n" \o newline_indent(st)
    ELSE prefix(st)

\* parse_block breaking the line before every closing brace.
right_brace_prefix_always(st, container) == newline_indent(st)

right_brace_prefix(st, container) ==
    IF container.items # <<>> THEN newline_indent(st) ELSE ""

\* parse_block once the body has been parsed: nodes is the result of the comprehension.
block_node(key, name, latest_node_at_this_level, nodes) ==
    IF nodes.err # NoError THEN Ret(NoTree, nodes.st, PyDict(nodes.value), nodes.err)
    ELSE
      LET st3 == decrease_level(nodes.st)
          st4 == [st3 EXCEPT !.latest_node = latest_node_at_this_level]
          container == ContainerNode(flatten(nodes.ret))
      IN  Ret(BlockNode(SyntaxToken(PyStr(key), block_prefix(st4), ""),
                        LeftCurlyBrace(IF Truthy(name) THEN " " ELSE ""),
                        RightCurlyBrace(right_brace_prefix(st4, container)),
                        IF Truthy(name) THEN SyntaxToken(name, "", "") ELSE NoToken,
                        container),
              [st4 EXCEPT !.latest_node = "BlockNode"], PyDict(nodes.value), NoError)

parse_block(st, key, items, name) ==
    block_node(key, name, st.latest_node,
               parse_items(increase_level([st EXCEPT !.parent_key = key]), items))

\* parse once the comprehension has run
document_node(nodes) ==
    IF nodes.err # NoError THEN Ret(NoTree, nodes.st, nodes.value, nodes.err)
    ELSE Ret(DocumentNode(ContainerNode(flatten(nodes.ret))), nodes.st, nodes.value,
             NoError)

parse(st, o) == document_node(parse_items(st, o))

(***************************************************************************)
(* DictVisitor.  Every visit method returns the value it returns in the    *)
(* code (ret), the depth field afterwards, the exception it raised, if any *)
(* (err), and whether it logged the top-level redeclaration warning.       *)
(***************************************************************************)
VRet(ret, d, err, warned) == [ret |-> ret, depth |-> d, err |-> err, warned |-> warned]

DictVisitor_init == -1

\* target[key] = value: in place when the key exists, else appended
SetItem(target, key, value) ==
    IF key \in Keys(target)
    THEN [i \in 1..Len(target) |->
            IF target[i].k = key THEN Entry(key, value) ELSE target[i]]
    ELSE Append(target, Entry(key, value))

\* target[key].append(value)
AppendItem(target, key, value) ==
    [i \in 1..Len(target) |->
        IF target[i].k = key
        THEN Entry(key, PyList(Append(target[i].v.val, value)))
        ELSE target[i]]

\* update_tree taking the last value at every depth.
update_tree_last_wins(d, target, update) ==
    IF Len(update) > 1 THEN VRet(target, d, "KeyError", FALSE)
    ELSE IF update[1].k \in PLURAL_KEYS
    THEN IF pluralize(update[1].k) \in Keys(target)
         THEN VRet(AppendItem(target, pluralize(update[1].k), update[1].v), d, NoError,
                   FALSE)
         ELSE VRet(SetItem(target, pluralize(update[1].k), PyList(<<update[1].v>>)), d,
                   NoError, FALSE)
    ELSE VRet(SetItem(target, update[1].k, update[1].v), d, NoError,
              update[1].k \in Keys(target))

update_tree(d, target, update) ==
    IF Len(update) > 1 THEN VRet(target, d, "KeyError", FALSE)
    ELSE
      LET key == update[1].k
          plural_key == pluralize(key)
      IN  IF key \in PLURAL_KEYS
          THEN IF plural_key \in Keys(target)
               THEN IF Get(target, plural_key).kind # "list"
                    THEN VRet(target, d, "AttributeError", FALSE)
                    ELSE VRet(AppendItem(target, plural_key, update[1].v), d, NoError,
                              FALSE)
               ELSE VRet(SetItem(target, plural_key, PyList(<<update[1].v>>)), d,
                         NoError, FALSE)
          ELSE IF key \in Keys(target)
          THEN IF d = 0
               THEN VRet(SetItem(target, key, update[1].v), d, NoError, TRUE)
               ELSE VRet(target, d, "KeyError", FALSE)
          ELSE VRet(SetItem(target, key, update[1].v), d, NoError, FALSE)

visit_token(token) == str(token.value)

visit_pair(node) == <<Entry(visit_token(node.type), PyStr(visit_token(node.value)))>>

\* item.accept(self) for an item of a ListNode: a token or a PairNode
visit_list_item(item) ==
    IF "tok" \in DOMAIN item THEN PyStr(visit_token(item)) ELSE PyDict(visit_pair(item))

visit_list(node) ==
    <<Entry(visit_token(node.type),
            PyList([i \in 1..Len(node.items) |-> visit_list_item(node.items[i])]))>>

RECURSIVE visit_container(_, _), visit_block(_, _), visit_items(_, _, _), accept(_, _),
          visit_items_update(_, _, _), visit_items_rest(_, _, _)

accept(d, node) ==
    IF node.node = "BlockNode" THEN visit_block(d, node)
    ELSE IF node.node = "ListNode" THEN VRet(visit_list(node), d, NoError, FALSE)
    ELSE VRet(visit_pair(node), d, NoError, FALSE)

Warned(r, w) == VRet(r.ret, r.depth, r.err, r.warned \/ w)

\* for item in node.items: self.update_tree(container, item.accept(self))
visit_items(d, container, items) ==
    IF items = <<>> THEN VRet(container, d, NoError, FALSE)
    ELSE visit_items_update(accept(d, Head(items)), container, items)

visit_items_update(one, container, items) ==
    IF one.err # NoError THEN VRet(container, one.depth, one.err, one.warned)
    ELSE visit_items_rest(Warned(update_tree(one.depth, container, one.ret), one.warned),
                          container, items)

visit_items_rest(upd, container, items) ==
    IF upd.err # NoError THEN VRet(container, upd.depth, upd.err, upd.warned)
    ELSE Warned(visit_items(upd.depth, upd.ret, Tail(items)), upd.warned)

\* self.depth -= 1; return container
leave_container(loop) ==
    IF loop.err # NoError THEN loop
    ELSE VRet(loop.ret, loop.depth - 1, NoError, loop.warned)

visit_container(d, node) ==
    IF Len(node.items) > 0
    THEN leave_container(visit_items(d + 1, <<>>, node.items))
    ELSE VRet(<<>>, d, NoError, FALSE)

\* visit_block once the container has been visited
block_dict(node, body) ==
    IF body.err # NoError THEN body
    ELSE VRet(<<Entry(visit_token(node.type),
                      PyDict(IF node.name # NoToken
                             THEN SetItem(body.ret, "name", PyStr(visit_token(node.name)))
                             ELSE body.ret))>>,
              body.depth, NoError, body.warned)

visit_block(d, node) == block_dict(node, visit_container(d, node.container))

visit(d, document) == visit_container(d, document.container)

(***************************************************************************)
(* The mappings handed to parse.                                           *)
(***************************************************************************)
MaxListLen == 5    \* longest list of scalars
MaxEntries == 2    \* most entries of a freely drawn block body
MaxPlural == 2     \* most elements of a freely drawn plural list
MaxCalls == 2      \* most parse calls on one mapping object

StrList(n) == PyList([i \in 1..n |-> PyStr("e" \o ToString(i))])

NoKeyTwice(b) == \A i, j \in 1..Len(b) : i # j => b[i].k # b[j].k

PairAtoms ==
    { Entry("label", PyStr("x")), Entry("type", PyStr("x")), Entry("sql", PyStr(" y ")),
      Entry("name", PyStr("n")), Entry("name", PyStr("")), Entry("type", PyInt(7)) }

PairModeLists ==
    { Entry("sorts", PyList(<<PyDict(<<Entry("type", PyStr("x"))>>),
                              PyDict(<<Entry("label", PyStr("x"))>>)>>)),
      Entry("sorts", PyList(<<PyDict(<<Entry("label", PyInt(7))>>)>>)),
      Entry("filters", PyList(<<PyDict(<<Entry("type", PyStr("x"))>>)>>)) }

ListAtoms ==
    { Entry("fields", StrList(n)) : n \in 0..MaxListLen }
    \cup PairModeLists
    \cup { Entry("fields", PyList(<<PyInt(7), PyInt(8)>>)),
           Entry("suggestions", StrList(2)),
           Entry("allowed_values", StrList(2)),
           Entry("dimensions", PyList(<<>>)) }

PluralElems ==
    { PyStr("x"), PyDict(<<Entry("name", PyStr("n")), Entry("sql", PyStr(" y "))>>),
      PyInt(7) }

Plurals ==
    { Entry("dimensions", PyList(s)) :
        s \in UNION { [1..m -> PluralElems] : m \in 1..MaxPlural } }

\* One or two top-level entries.
TopMenu == PairAtoms \cup ListAtoms \cup Plurals
TopDocs ==
    { <<>> } \cup { <<e>> : e \in TopMenu }
    \cup { d \in { <<e1, e2>> : e1 \in TopMenu, e2 \in TopMenu } : NoKeyTwice(d) }

\* One block with a freely drawn body, between siblings.
InnerMenu ==
    { Entry("type", PyStr("x")), Entry("sql", PyStr(" y ")), Entry("name", PyStr("n")),
      Entry("name", PyStr("")), Entry("name", PyInt(7)), Entry("type", PyInt(7)),
      Entry("dimensions", PyList(<<>>)) }

Bodies(menu, n) == { b \in UNION { [1..m -> menu] : m \in 0..n } : NoKeyTwice(b) }

BlockKeys == {"view", "filters", "param", "access_grant", "derived_table"}

Blocks1 == { Entry(key, PyDict(b)) : key \in BlockKeys, b \in Bodies(InnerMenu, MaxEntries) }

Before == { <<>>, <<Entry("type", PyStr("x"))>>, <<Entry("fields", StrList(1))>> }
After ==
    { <<>>, <<Entry("label", PyStr("x"))>>,
      <<Entry("dimensions", PyList(<<PyDict(<<Entry("name", PyStr("n"))>>)>>))>> }

Around(entries) ==
    { d \in { pre \o <<e>> \o post : pre \in Before, post \in After, e \in entries } :
        NoKeyTwice(d) }

\* A block in a block, between siblings.
Blocks2 ==
    { Entry(key, PyDict(b)) :
        key \in {"view", "filters"},
        b \in Around({ Entry(k2, PyDict(b2)) :
                         k2 \in {"dimension", "filters"}, b2 \in Bodies(InnerMenu, 1) }) }

\* A list in a block and in a block in a block, after a block that sets parent_key.
ListBlocks ==
    { <<Entry("view", PyDict(<<e>>))>> : e \in ListAtoms }
    \cup { <<Entry("view", PyDict(<<Entry("derived_table", PyDict(<<e>>))>>))>> :
             e \in ListAtoms }
    \cup { <<Entry(key, PyDict(<<Entry("allowed_values", StrList(2))>>))>> :
             key \in {"access_grant", "access_grants"} }
    \cup { <<Entry("view", PyDict(<<Entry(key, PyDict(<<>>)),
                                    Entry("allowed_values", StrList(2))>>))>> :
             key \in {"access_grant", "filters"} }

Docs == TopDocs \cup Around(Blocks1) \cup { <<e>> : e \in Blocks2 } \cup ListBlocks

(***************************************************************************)
(* The trees handed to visit that no parse call built.                     *)
(***************************************************************************)
MaxItems == 3      \* most items of a freely drawn hand-built container

HPair(key, value) == PairNode(SyntaxToken(PyStr(key), "", ""),
                              SyntaxToken(PyStr(value), "", ""))
HList(key, n) ==
    ListNode(SyntaxToken(PyStr(key), "", ""), LeftBracket,
             [i \in 1..n |-> SyntaxToken(PyStr("e" \o ToString(i)), "", "")],
             RightBracket(""), FALSE)
HBlock(key, name, items) ==
    BlockNode(SyntaxToken(PyStr(key), "", ""), LeftCurlyBrace(""), RightCurlyBrace(""),
              name, ContainerNode(items))

HandLeaves ==
    { HPair("label", "a"), HPair("label", "b"), HPair("dimension", "a"),
      HPair("dimension", "b"), HList("fields", 1),
      HBlock("derived_table", NoToken, <<>>) }

Containers(items, n) == UNION { [1..m -> items] : m \in 0..n }

HandBlocks1 ==
    { HBlock(key, NoToken, c) :
        key \in {"derived_table", "view"},
        c \in { <<a, b>> : a \in HandLeaves, b \in HandLeaves } \cup { <<>> } }

HandBlocks2 ==
    { HBlock("explore", SyntaxToken(PyStr("n"), "", ""), <<b>> \o c) :
        b \in HandBlocks1,
        c \in { <<>>, <<HPair("label", "a")>>, <<HPair("label", "a"), HPair("label", "b")>> } }

HandTrees ==
    { DocumentNode(ContainerNode(c)) :
        c \in Containers(HandLeaves, MaxItems)
              \cup { pre \o <<b>> \o post :
                       pre \in { <<>>, <<HPair("label", "a")>> },
                       post \in { <<>>, <<HPair("label", "b")>> },
                       b \in HandBlocks1 \cup HandBlocks2 } }

(***************************************************************************)
(* The caller.                                                             *)
(***************************************************************************)
Init ==
    /\ \/ obj \in Docs /\ tree = NoTree
       \/ obj = <<>> /\ tree \in HandTrees
    /\ obj0 = obj
    /\ parent_key = DictParser_init.parent_key
    /\ level = DictParser_init.level
    /\ latest_node = DictParser_init.latest_node
    /\ fresh = FALSE
    /\ calls = 0
    /\ prev_tree = NoTree
    /\ in_obj = obj
    /\ perr = NoError
    /\ depth = DictVisitor_init
    /\ result = <<>>
    /\ verr = NoError
    /\ warning = FALSE
    /\ depth_in = DictVisitor_init
    /\ pc = "init"

\* parser = DictParser()
NewParser ==
    /\ pc \in {"parsed", "parse_failed"}
    /\ calls < MaxCalls
    /\ ParserState(parent_key, level, latest_node) # DictParser_init
    /\ parent_key' = DictParser_init.parent_key
    /\ level' = DictParser_init.level
    /\ latest_node' = DictParser_init.latest_node
    /\ pc' = "new_parser"
    /\ UNCHANGED <<obj, obj0, fresh, calls, tree, prev_tree, in_obj, perr, depth, result,
                   verr, warning, depth_in>>

\* tree = parser.parse(obj)
Parse ==
    /\ calls < MaxCalls
    /\ pc \in {"init", "parsed", "parse_failed", "new_parser"}
    /\ LET r == parse(ParserState(parent_key, level, latest_node), obj)
       IN  /\ obj' = r.value
           /\ parent_key' = r.st.parent_key
           /\ level' = r.st.level
           /\ latest_node' = r.st.latest_node
           /\ tree' = r.ret
           /\ perr' = r.err
           /\ pc' = IF r.err = NoError THEN "parsed" ELSE "parse_failed"
    /\ fresh' = (ParserState(parent_key, level, latest_node) = DictParser_init)
    /\ calls' = calls + 1
    /\ prev_tree' = IF calls = 0 THEN NoTree ELSE tree
    /\ in_obj' = obj
    /\ UNCHANGED <<obj0, depth, result, verr, warning, depth_in>>

\* visitor = DictVisitor()
NewVisitor ==
    /\ depth # DictVisitor_init
    /\ depth' = DictVisitor_init
    /\ UNCHANGED <<obj, obj0, parent_key, level, latest_node, fresh, calls, tree,
                   prev_tree, in_obj, perr, result, verr, warning, depth_in, pc>>

\* result = visitor.visit(tree)
Visit ==
    /\ tree # NoTree
    /\ pc \in {"init", "parsed"}
    /\ LET r == visit(depth, tree)
       IN  /\ depth' = r.depth
           /\ result' = r.ret
           /\ verr' = r.err
           /\ warning' = r.warned
           /\ pc' = IF r.err = NoError THEN "visited" ELSE "visit_failed"
    /\ depth_in' = depth
    /\ UNCHANGED <<obj, obj0, parent_key, level, latest_node, fresh, calls, tree,
                   prev_tree, in_obj, perr>>

Next == NewParser \/ Parse \/ NewVisitor \/ Visit

Spec == Init /\ [][Next]_vars

(***************************************************************************)
(* What the claims speak of.                                               *)
(***************************************************************************)
ParseReturned == calls > 0 /\ perr = NoError
FreshParseReturned == ParseReturned /\ fresh
VisitedParse == ParseReturned /\ pc = "visited"

\* Python's == on values: the order of a dict's entries does not count.
RECURSIVE PyEq(_, _), DictEq(_, _)
PyEq(a, b) ==
    /\ a.kind = b.kind
    /\ CASE a.kind = "dict" -> DictEq(a.val, b.val)
         [] a.kind = "list" ->
                /\ Len(a.val) = Len(b.val)
                /\ \A i \in 1..Len(a.val) : PyEq(a.val[i], b.val[i])
         [] OTHER -> a.val = b.val
DictEq(x, y) ==
    /\ Keys(x) = Keys(y)
    /\ \A key \in Keys(x) : PyEq(Get(x, key), Get(y, key))

\* The values a mapping holds, at every depth.
RECURSIVE ValuesOf(_)
ValuesOf(v) ==
    {v} \cup (IF v.kind = "dict" THEN UNION { ValuesOf(v.val[i].v) : i \in 1..Len(v.val) }
              ELSE IF v.kind = "list" THEN UNION { ValuesOf(v.val[i]) : i \in 1..Len(v.val) }
              ELSE {})
\* The entries a mapping holds, at every depth.
EntriesOf(m) ==
    UNION { { w.val[i] : i \in 1..Len(w.val) } : w \in { w \in ValuesOf(PyDict(m)) : w.kind = "dict" } }

OnlyStrSeqMap(m) == \A v \in ValuesOf(PyDict(m)) : v.kind \in {"str", "list", "dict"}

\* The mapping the round trip is to return: every repeatable key under its plural key,
\* holding a list.
IsRepeated(e) ==
    \/ e.k \in PLURAL_KEYS
    \/ e.v.kind = "list" /\ singularize(e.k) \in PLURAL_KEYS
RECURSIVE Canon(_, _), CanonValue(_)
CanonValue(v) ==
    IF v.kind = "dict" THEN PyDict(Canon(<<>>, v.val))
    ELSE IF v.kind = "list" THEN PyList([i \in 1..Len(v.val) |-> CanonValue(v.val[i])])
    ELSE v
Canon(target, entries) ==
    IF entries = <<>> THEN target
    ELSE
      LET e == Head(entries)
          v == CanonValue(e.v)
          plural_key == pluralize(singularize(e.k))
          elems == IF v.kind = "list" THEN v.val ELSE <<v>>
          old == IF plural_key \in Keys(target) THEN Get(target, plural_key).val ELSE <<>>
      IN  IF IsRepeated(e)
          THEN Canon(SetItem(target, plural_key, PyList(old \o elems)), Tail(entries))
          ELSE Canon(SetItem(target, e.k, v), Tail(entries))

(* C1: Round trip. For every mapping m of strings, sequences and mappings,         *)
(* visit(parse(m)) equals m as it was before the call, up to repeatable singular  *)
(* keys rewritten to their plural key and a block's name moved out and back;      *)
(* plural keys with an empty list and expression-block pairs included.            *)
C1_RoundTrip ==
    (VisitedParse /\ fresh /\ verr = NoError /\ OnlyStrSeqMap(in_obj))
        => DictEq(result, Canon(<<>>, in_obj))

(***************************************************************************)
(* The nodes of a parsed tree, each beside the entry of the mapping it was *)
(* emitted for.  A list under a plural key stands for one entry per        *)
(* element, under the singular key; with literal FALSE a list under        *)
(* allowed_values stands for itself where the tree holds a ListNode for it.*)
(* A record holds the entry (key, value), its node, the key of the         *)
(* enclosing block or list (encl), the nesting depth (lvl), the node's     *)
(* place among its siblings (pos) and the kind of the sibling before it    *)
(* (prev); ok is FALSE where mapping and tree do not line up.              *)
(***************************************************************************)
TypeOf(node) == node.type.value.val

Misaligned == [ok |-> FALSE]

IsAllowedValues(key) == singularize(key) = "allowed_value"

StandsForElements(e, items, i, literal) ==
    /\ e.v.kind = "list"
    /\ singularize(e.k) \in PLURAL_KEYS
    /\ \/ literal
       \/ ~IsAllowedValues(e.k)
       \/ ~(i <= Len(items) /\ items[i].node = "ListNode" /\ TypeOf(items[i]) = e.k)

\* The entries of a mapping value once its name is taken out.
BodyOf(key, value) ==
    IF key \in KEYS_WITH_NAME_FIELDS \/ "name" \notin Keys(value.val) THEN value.val
    ELSE SelectSeq(value.val, LAMBDA e : e.k # "name")

IsPairList(value) ==
    /\ value.kind = "list" /\ value.val # <<>>
    /\ \A i \in 1..Len(value.val) : value.val[i].kind = "dict" /\ Len(value.val[i].val) = 1

RECURSIVE Corr(_, _, _, _, _, _)
Corr(entries, items, i, encl, lvl, literal) ==
    IF entries = <<>> THEN (IF i = Len(items) + 1 THEN <<>> ELSE <<Misaligned>>)
    ELSE
      LET e == Head(entries)
      IN  IF StandsForElements(e, items, i, literal)
          THEN Corr([j \in 1..Len(e.v.val) |-> Entry(singularize(e.k), e.v.val[j])]
                        \o Tail(entries), items, i, encl, lvl, literal)
          ELSE IF i > Len(items) THEN <<Misaligned>>
          ELSE <<[ok |-> TRUE, key |-> e.k, value |-> e.v, node |-> items[i],
                  encl |-> encl, lvl |-> lvl, pos |-> i,
                  prev |-> IF i = 1 THEN "first" ELSE items[i - 1].node]>>
               \o (IF e.v.kind = "dict" /\ items[i].node = "BlockNode"
                   THEN Corr(BodyOf(e.k, e.v), items[i].container.items, 1, e.k, lvl + 1,
                             literal)
                   ELSE IF IsPairList(e.v) /\ items[i].node = "ListNode"
                   THEN Corr([j \in 1..Len(e.v.val) |-> e.v.val[j].val[1]],
                             items[i].items, 1, e.k, lvl + 1, TRUE)
                   ELSE <<>>)
               \o Corr(Tail(entries), items, i + 1, encl, lvl, literal)

Range(f) == { f[i] : i \in DOMAIN f }

\* The records of the last parse call.
Recs == Range(Corr(in_obj, tree.container.items, 1, None, 0, FALSE))
LiteralRecs == Range(Corr(in_obj, tree.container.items, 1, None, 0, TRUE))

\* A node is the node parse_any emits for its entry: a PairNode holding a string, a
\* ListNode holding as many items as a list has, a BlockNode for a mapping.
NodeFor(r) ==
    /\ r.ok
    /\ "tok" \notin DOMAIN r.node
    /\ TypeOf(r.node) = r.key
    /\ CASE r.value.kind = "str" ->
                /\ r.node.node = "PairNode"
                /\ r.node.value.value.val \in {r.value.val, strip(r.value.val) \o " "}
         [] r.value.kind = "list" ->
                r.node.node = "ListNode" /\ Len(r.node.items) = Len(r.value.val)
         [] r.value.kind = "dict" ->
                /\ r.node.node = "BlockNode"
                /\ r.node.name # NoToken => r.node.name.value = Get(r.value.val, "name")
         [] OTHER -> r.node.node = "PairNode"

\* The places of the items of type key, in order.
Places(items, key) == SelectSeq([i \in 1..Len(items) |-> i], LAMBDA i : TypeOf(items[i]) = key)

\* A container's items of each repeatable key sit in one list under the plural key, in
\* their order, in the mapping visit_container returns for it.
RECURSIVE Merged(_, _), MergedItem(_, _)
MergedItem(node, v) ==
    CASE node.node = "PairNode" -> v = PyStr(str(node.value.value))
      [] node.node = "ListNode" -> v.kind = "list" /\ Len(v.val) = Len(node.items)
      [] OTHER -> /\ v.kind = "dict"
                  /\ Merged(node.container.items, v.val)
                  /\ node.name # NoToken => Get(v.val, "name") = PyStr(str(node.name.value))
Merged(items, mapping) ==
    \A key \in PLURAL_KEYS :
        LET at == Places(items, key)
        IN  at # <<>> =>
              /\ pluralize(key) \in Keys(mapping)
              /\ Get(mapping, pluralize(key)).kind = "list"
              /\ Len(Get(mapping, pluralize(key)).val) = Len(at)
              /\ \A j \in 1..Len(at) :
                    MergedItem(items[at[j]], Get(mapping, pluralize(key)).val[j])

(* C2 as amended: for a key k whose singular form is in the repeatable-key set and *)
(* is not allowed_value, and a list of n string or mapping elements, parse emits   *)
(* exactly n consecutive sibling nodes, in the order of the list, each typed       *)
(* singularize(k), where k stood among its siblings; and visit_container merges    *)
(* the n sibling nodes of a repeatable type into one list of length n under the    *)
(* plural key, keeping their order.                                                *)
C2_PluralExpansion ==
    /\ ParseReturned => \A r \in Recs : NodeFor(r)
    /\ (pc = "visited" /\ verr = NoError) => Merged(tree.container.items, result)

(* C2 as claimed: the same for every key whose singular form is in the             *)
(* repeatable-key set, allowed_values included.                                    *)
C2_PluralExpansion_AnyKey ==
    /\ ParseReturned => \A r \in LiteralRecs : NodeFor(r)
    /\ (pc = "visited" /\ verr = NoError) => Merged(tree.container.items, result)

HasPluralList(m, n) ==
    \E e \in EntriesOf(m) :
        /\ e.v.kind = "list" /\ Len(e.v.val) = n
        /\ singularize(e.k) \in PLURAL_KEYS /\ ~IsAllowedValues(e.k)
        /\ \A i \in 1..n : e.v.val[i].kind \in {"str", "dict"}

\* Two elements of a plural list were expanded after another sibling and merged back.
C2_Witness ==
    /\ VisitedParse /\ verr = NoError
    /\ HasPluralList(in_obj, 2)
    /\ Len(in_obj) = 2 /\ in_obj[2].k = "dimensions"
    /\ Len(tree.container.items) = 3
    /\ "dimensions" \in Keys(result) /\ Len(Get(result, "dimensions").val) = 2

(***************************************************************************)
(* Conflicts: two items of one container with the same non-repeatable type.*)
(***************************************************************************)
RECURSIVE ContainersAt(_, _)
ContainersAt(items, dep) ==
    {[items |-> items, depth |-> dep]}
    \cup UNION { ContainersAt(items[i].container.items, dep + 1) :
                   i \in { j \in 1..Len(items) : items[j].node = "BlockNode" } }

Conflict(items) ==
    \E i, j \in 1..Len(items) :
        i < j /\ TypeOf(items[i]) = TypeOf(items[j]) /\ TypeOf(items[i]) \notin PLURAL_KEYS

DeepConflict == \E c \in ContainersAt(tree.container.items, 0) : c.depth >= 1 /\ Conflict(c.items)
RootConflict == Conflict(tree.container.items)

\* The last item of each non-repeatable type is the one the mapping holds.
LastWins(items, mapping) ==
    \A i \in 1..Len(items) :
        (TypeOf(items[i]) \notin PLURAL_KEYS
            /\ \A j \in (i + 1)..Len(items) : TypeOf(items[j]) # TypeOf(items[i]))
        => /\ TypeOf(items[i]) \in Keys(mapping)
           /\ CASE items[i].node = "PairNode" ->
                     Get(mapping, TypeOf(items[i])) = PyStr(str(items[i].value.value))
                [] items[i].node = "ListNode" ->
                     Get(mapping, TypeOf(items[i])).kind = "list"
                [] OTHER -> Get(mapping, TypeOf(items[i])).kind = "dict"

FreshVisit == pc \in {"visited", "visit_failed"} /\ depth_in = DictVisitor_init

C4_InputUnchanged ==
    ParseReturned =>
        /\ obj = in_obj
        /\ (calls = 2 /\ fresh /\ prev_tree # NoTree) => tree = prev_tree

\* The token kind that a key and the key of the innermost enclosing block or list call
\* for.
TokenKindFor(key, encl) ==
    IF encl = "filters" \/ key \in QUOTED_LITERAL_KEYS THEN "QuotedSyntaxToken"
    ELSE IF key \in EXPR_BLOCK_KEYS THEN "ExpressionSyntaxToken"
    ELSE "SyntaxToken"

(* C5: in a tree returned by a parser as constructed, the kind of every pair's     *)
(* value token is decided by the pair's key and the key of its innermost enclosing *)
(* block or list alone, whichever siblings come before it: quoted when that        *)
(* enclosing key is "filters" or the key is a quoted-literal key, and never        *)
(* force-quoted otherwise.                                                         *)
C5_QuotingDeterminism ==
    FreshParseReturned =>
        \A r \in Recs :
            (r.ok /\ r.node.node = "PairNode")
                => r.node.value.tok = TokenKindFor(r.key, r.encl)

\* newline + indent at a nesting depth
NewlineIndent(lvl) == "\n" \o Repeat(base_indent, lvl)

IsContainerItem(r) == r.ok /\ "tok" \notin DOMAIN r.node

(* C6: in a tree returned by a parser as constructed, the prefix of a node's type  *)
(* token holds a blank line ("\n" + "\n" + indent(level)) exactly when the         *)
(* previously emitted sibling in the same container was a Block; after a Pair or a *)
(* List it is a single "\n" + indent(level), also when the node is itself a Block; *)
(* the first node of a freshly opened block body gets "\n" + indent(level) and the *)
(* first node of the document gets the empty string.                               *)
C6_SiblingSeparation ==
    FreshParseReturned =>
        \A r \in Recs :
            IsContainerItem(r) =>
                r.node.type.prefix =
                    IF r.prev = "first"
                    THEN (IF r.lvl = 0 THEN "" ELSE NewlineIndent(r.lvl))
                    ELSE IF r.prev = "BlockNode"
                    THEN "\n" \o NewlineIndent(r.lvl)
                    ELSE NewlineIndent(r.lvl)

(* C7: for a mapping value under key k, if k is a key with name fields or the      *)
(* mapping has no "name" entry, parse emits a Block typed k with no name token     *)
(* whose body holds every entry of the mapping; otherwise it emits a Block typed k *)
(* whose name token holds the mapping's "name" entry and whose body holds the      *)
(* remaining entries, in their order.                                              *)
C7_BlockClassification ==
    ParseReturned =>
        \A r \in Recs :
            /\ r.ok
            /\ r.value.kind = "dict" =>
                  /\ r.node.node = "BlockNode"
                  /\ TypeOf(r.node) = r.key
                  /\ IF r.key \in KEYS_WITH_NAME_FIELDS \/ "name" \notin Keys(r.value.val)
                     THEN r.node.name = NoToken
                     ELSE /\ r.node.name # NoToken
                          /\ r.node.name.value = Get(r.value.val, "name")

\* The prefix in front of an item of a list: of the token, or of the pair's type token.
ItemPrefix(item) == IF "tok" \in DOMAIN item THEN item.prefix ELSE item.type.prefix

Multiline(values) ==
    Len(values) >= 5 \/ (values # <<>> /\ Head(values).kind \notin {"str", "int"})

(* C8: in a tree returned by a parser as constructed, a List emitted for a         *)
(* sequence of n elements is inline (no trailing comma, first item without prefix, *)
(* later items prefixed by one space, closing bracket without prefix) when n < 5   *)
(* and the first element, if any, is a string or integer, and multiline (trailing  *)
(* comma, every item prefixed by newline + indent(level + 1), closing bracket      *)
(* prefixed by newline + indent(level)) when n >= 5 or the first element is        *)
(* neither.                                                                        *)
C8_ListLayout ==
    FreshParseReturned =>
        \A r \in Recs :
            (r.ok /\ r.node.node = "ListNode") =>
                /\ Len(r.node.items) = Len(r.value.val)
                /\ IF Multiline(r.value.val)
                   THEN /\ r.node.trailing_comma
                        /\ \A i \in 1..Len(r.node.items) :
                              ItemPrefix(r.node.items[i]) = NewlineIndent(r.lvl + 1)
                        /\ r.node.right_bracket.prefix = NewlineIndent(r.lvl)
                   ELSE /\ ~r.node.trailing_comma
                        /\ \A i \in 1..Len(r.node.items) :
                              ItemPrefix(r.node.items[i]) = IF i = 1 THEN None ELSE " "
                        /\ r.node.right_bracket.prefix = ""

\* A list of five strings inside a block came out multiline.
C8_Witness ==
    /\ FreshParseReturned
    /\ \E r \in Recs :
          /\ r.ok /\ r.node.node = "ListNode" /\ r.lvl = 1
          /\ Len(r.value.val) = 5 /\ r.value.val[1].kind = "str"
          /\ r.node.trailing_comma

IsBlock(r) == r.ok /\ r.value.kind = "dict" /\ r.node.node = "BlockNode"

\* A body that holds nothing but expanded plural keys with empty lists.
OnlyEmptyPlurals(body) ==
    \A i \in 1..Len(body) :
        /\ body[i].v = PyList(<<>>)
        /\ singularize(body[i].k) \in PLURAL_KEYS
        /\ ~IsAllowedValues(body[i].k)

(* C9 as amended: for every Block that a parser as constructed emits, the closing  *)
(* brace's prefix is the empty string if the block's body container has no items   *)
(* and newline + indent(level of the block) if it has; the container has no items  *)
(* when the body mapping (after a name was extracted) is empty and also when it    *)
(* holds only expanded plural keys with empty lists, and has items when the body   *)
(* holds a string, a mapping or a non-empty sequence.                              *)
C9_EmptyBlock ==
    FreshParseReturned =>
        \A r \in Recs :
            IsBlock(r) =>
                /\ r.node.right_brace.prefix =
                       IF r.node.container.items = <<>> THEN ""
                       ELSE NewlineIndent(r.lvl)
                /\ OnlyEmptyPlurals(BodyOf(r.key, r.value))
                       => r.node.container.items = <<>>
                /\ (\E e \in Range(BodyOf(r.key, r.value)) : e.v # PyList(<<>>))
                       => r.node.container.items # <<>>

(* C9 as claimed: the closing brace's prefix is empty if the body mapping is empty *)
(* and newline + indent(level) if it is non-empty, also when its only entries are  *)
(* plural keys holding empty lists.                                                *)
C9_EmptyBlock_ByMapping ==
    FreshParseReturned =>
        \A r \in Recs :
            IsBlock(r) =>
                r.node.right_brace.prefix =
                    IF BodyOf(r.key, r.value) = <<>> THEN "" ELSE NewlineIndent(r.lvl)

\* A block whose body holds one plural key with an empty list closes without a newline,
\* and a block with a pair in its body closes after one.
C9_Witness ==
    /\ FreshParseReturned
    /\ \E r \in Recs :
          /\ IsBlock(r) /\ BodyOf(r.key, r.value) # <<>>
          /\ OnlyEmptyPlurals(BodyOf(r.key, r.value))
          /\ r.node.right_brace.prefix = ""
    /\ \E r \in Recs :
          /\ IsBlock(r) /\ r.node.container.items # <<>>
          /\ r.node.right_brace.prefix = NewlineIndent(r.lvl)

Supported(v) == v.kind \in {"str", "list", "dict"}

\* A value neither string, sequence nor mapping at one of the positions parse_any is
\* called for: an entry of the document or of a block body once the name is taken out,
\* or an element of an expanded plural list.
RECURSIVE Reached(_)
Reached(entries) ==
    \E i \in 1..Len(entries) :
        LET e == entries[i]
        IN  \/ ~Supported(e.v)
            \/ e.v.kind = "dict" /\ Reached(BodyOf(e.k, e.v))
            \/ /\ e.v.kind = "list"
               /\ singularize(e.k) \in PLURAL_KEYS /\ ~IsAllowedValues(e.k)
               /\ \E j \in 1..Len(e.v.val) :
                     \/ ~Supported(e.v.val[j])
                     \/ /\ e.v.val[j].kind = "dict"
                        /\ Reached(BodyOf(singularize(e.k), e.v.val[j]))

\* Such a value at any position: also the value of a mapping inside a list, and a name.
RECURSIVE Anywhere(_)
Anywhere(entries) ==
    \E i \in 1..Len(entries) :
        LET e == entries[i]
        IN  \/ ~Supported(e.v)
            \/ e.v.kind = "dict" /\ Anywhere(e.v.val)
            \/ /\ e.v.kind = "list"
               /\ \E j \in 1..Len(e.v.val) :
                     \/ singularize(e.k) \in PLURAL_KEYS /\ ~Supported(e.v.val[j])
                     \/ e.v.val[j].kind = "dict" /\ Anywhere(e.v.val[j].val)

\* parse raised before it reached the value: is_plural_key on a top-level allowed_values.
RaisedBefore ==
    /\ perr = "AttributeError"
    /\ \E i \in 1..Len(in_obj) : in_obj[i].v.kind = "list" /\ IsAllowedValues(in_obj[i].k)

ParseEnded == calls > 0 /\ pc \in {"parsed", "parse_failed", "visited", "visit_failed"}

ExpandsByRule(key, encl) ==
    /\ singularize(key) \in PLURAL_KEYS
    /\ ~(singularize(key) = "allowed_value" /\ encl # None /\ rstrip_s(encl) = "access_grant")

\* The nodes of a tree beside the entries they were emitted for, as Corr, with every
\* sequence standing for its elements exactly where the rule says so.
RECURSIVE CorrByRule(_, _, _, _, _)
CorrByRule(entries, items, i, encl, lvl) ==
    IF entries = <<>> THEN (IF i = Len(items) + 1 THEN <<>> ELSE <<Misaligned>>)
    ELSE
      LET e == Head(entries)
      IN  IF e.v.kind = "list" /\ ExpandsByRule(e.k, encl)
          THEN CorrByRule([j \in 1..Len(e.v.val) |-> Entry(singularize(e.k), e.v.val[j])]
                              \o Tail(entries), items, i, encl, lvl)
          ELSE IF i > Len(items) THEN <<Misaligned>>
          ELSE <<[ok |-> TRUE, key |-> e.k, value |-> e.v, node |-> items[i],
                  encl |-> encl, lvl |-> lvl, pos |-> i,
                  prev |-> IF i = 1 THEN "first" ELSE items[i - 1].node]>>
               \o (IF e.v.kind = "dict" /\ items[i].node = "BlockNode"
                   THEN CorrByRule(BodyOf(e.k, e.v), items[i].container.items, 1, e.k,
                                   lvl + 1)
                   ELSE <<>>)
               \o CorrByRule(Tail(entries), items, i + 1, encl, lvl)

RuleRecs == Range(CorrByRule(in_obj, tree.container.items, 1, None, 0))

FreshParseEnded == ParseEnded /\ fresh

(* C11: a parser as constructed decides for every sequence value, without error    *)
(* and whatever siblings came before, at the top level too: the sequence is        *)
(* expanded into sibling nodes typed singularize(k) if and only if singularize(k)  *)
(* is in the repeatable-key set, except that under an innermost enclosing key      *)
(* that is "access_grant" once its trailing s is stripped, allowed_values is       *)
(* emitted as a single List node.                                                  *)
C11_PluralKeyException ==
    FreshParseEnded =>
        /\ perr # "AttributeError"
        /\ perr = NoError =>
              \A r \in RuleRecs :
                  /\ r.ok
                  /\ "tok" \notin DOMAIN r.node
                  /\ TypeOf(r.node) = r.key
                  /\ r.value.kind = "list" => r.node.node = "ListNode"

\* The number of block bodies being built where parse_any raises TypeError: the depth
\* of the first value, in the order of the calls, that is neither string, sequence nor
\* mapping; -1 if there is none.
RECURSIVE FailDepth(_, _), EntryFailDepth(_, _)
EntryFailDepth(e, lvl) ==
    IF ~Supported(e.v) THEN lvl
    ELSE IF e.v.kind = "dict" THEN FailDepth(BodyOf(e.k, e.v), lvl + 1)
    ELSE IF e.v.kind = "list" /\ singularize(e.k) \in PLURAL_KEYS /\ ~IsAllowedValues(e.k)
    THEN FailDepth([j \in 1..Len(e.v.val) |-> Entry(singularize(e.k), e.v.val[j])], lvl)
    ELSE -1
FailDepth(entries, lvl) ==
    IF entries = <<>> THEN -1
    ELSE IF EntryFailDepth(Head(entries), lvl) # -1 THEN EntryFailDepth(Head(entries), lvl)
    ELSE FailDepth(Tail(entries), lvl)

\* A prefix indented by two spaces times the nesting depth.
Indented(pfx, lvl) ==
    \/ pfx = NewlineIndent(lvl)
    \/ pfx = "\n" \o NewlineIndent(lvl)
    \/ lvl = 0 /\ pfx = ""

(* C12: for a parser as constructed, the level is never negative and is the number *)
(* of block bodies and multiline lists being built: every type token of a returned *)
(* tree is indented by two spaces times its nesting depth, every closing brace of  *)
(* a non-empty block and every closing bracket of a multiline list by those of its *)
(* own depth; when parse raises TypeError the level is the depth of the body it    *)
(* was building, and when parse returns the level is back to 0.                    *)
C12_LevelBalanced ==
    FreshParseEnded =>
        /\ level >= 0
        /\ perr = "TypeError" => level = FailDepth(in_obj, 0)
        /\ RaisedBefore => level = 0
        /\ perr = NoError =>
              /\ level = 0
              /\ \A r \in Recs :
                    IsContainerItem(r) =>
                        /\ Indented(r.node.type.prefix, r.lvl)
                        /\ (r.node.node = "BlockNode" /\ r.node.container.items # <<>>)
                              => r.node.right_brace.prefix = NewlineIndent(r.lvl)
                        /\ (r.node.node = "ListNode" /\ r.node.trailing_comma)
                              => r.node.right_bracket.prefix = NewlineIndent(r.lvl)

\* A tree with a pair two block bodies deep was returned, the level back to 0.
C12_Witness ==
    /\ FreshParseEnded /\ perr = NoError /\ level = 0
    /\ \E r \in Recs : IsContainerItem(r) /\ r.lvl = 2 /\ r.node.node = "PairNode"

====
